---- MODULE Spec2Model ----
(***************************************************************************)
(* Model of the expense/budget tracker: the DatabaseManager of             *)
(* src/backend.py (one psycopg2 connection over the tables expenses,       *)
(* budgets and income) and the budget tracking of src/frontend.py.         *)
(*                                                                         *)
(* Amounts are integers in thousandths of a currency unit, so that the     *)
(* rounding of a DECIMAL(10, 2) column is visible.  Python values that     *)
(* reach arithmetic carry their type (Decimal, float, int, NoneType),      *)
(* because Python's operators depend on it.                                *)
(***************************************************************************)
EXTENDS Integers, Sequences, FiniteSets, TLC

\* Highest value the model lets the sequence behind expenses.id hand out.
MaxSerial == 2

\* Subsets of the choices of the forms (frontend.py:76, 79, 92).
Categories == {"Food", "Transport"}
PaymentMethods == {"Cash"}

\* <<year, month, day>>
Dates == {<<2025, 1, 15>>, <<2025, 2, 15>>}

\* st.number_input values, in thousandths: 0.00, 0.01 and 0.015.
AmountInputs == {0, 10, 15}

\* <<monthly, annual>> values of the budget form, in thousandths (0.025 is
\* stored as 0.03).
BudgetInputs == {<<0, 0>>, <<20, 240>>, <<25, 240>>}

\* Contents the income table can have when the program starts: no method
\* of DatabaseManager writes to it.
IncomeTables == {{}, {[id |-> 1, date |-> <<2025, 1, 15>>, amount |-> 50, source |-> "Salary"]}}

\* What the environment does to the statements of one call: nothing, a
\* statement error on a live connection, or the connection lost during
\* execute or during commit (the commit then did not take effect).
ReadFaults == {"none", "execute_error", "execute_lost"}
MutFaults == ReadFaults \cup {"commit_lost"}

VARIABLES
    conn,             \* "none" (connect failed: conn and cursor are None), "open", "closed" (lost)
    tx,               \* the connection's transaction: "idle", "active", "aborted"
    expenses,         \* committed rows of table expenses
    expenses_id_seq,  \* next value of the sequence behind expenses.id
    budgets,          \* committed rows of table budgets (the id column is never read)
    income,           \* committed rows of table income
    lastOp            \* the last call (see Call)

vars == <<conn, tx, expenses, expenses_id_seq, budgets, income, lastOp>>

-----------------------------------------------------------------------------
\* Python values

PyVal(t, x) == [ty |-> t, v |-> x]
PyNone == PyVal("NoneType", 0)
PyTypeError == PyVal("TypeError", 0)

\* bool(x): None and every numeric zero are falsy.
PyTruthy(x) == x.ty # "NoneType" /\ x.v # 0

\* x alone, without the `or y`.
PyOrNoDefault(x, y) == x
\* x or y
PyOr(x, y) == IF PyTruthy(x) THEN x ELSE y

\* Decimal mixes with int but not with float in arithmetic.
PyArithType(x, y) ==
    IF x.ty = "TypeError" \/ y.ty = "TypeError" THEN "TypeError"
    ELSE IF x.ty = "NoneType" \/ y.ty = "NoneType" THEN "TypeError"
    ELSE IF {x.ty, y.ty} = {"Decimal", "float"} THEN "TypeError"
    ELSE IF "Decimal" \in {x.ty, y.ty} THEN "Decimal"
    ELSE IF "float" \in {x.ty, y.ty} THEN "float"
    ELSE "int"

\* x - y
PySub(x, y) ==
    LET t == PyArithType(x, y)
    IN  IF t = "TypeError" THEN PyTypeError ELSE PyVal(t, x.v - y.v)

\* x * y, both in thousandths
PyMul(x, y) ==
    LET t == PyArithType(x, y)
    IN  IF t = "TypeError" THEN PyTypeError ELSE PyVal(t, (x.v * y.v) \div 1000)

\* -x
PyNeg(x) == IF x.ty \in {"TypeError", "NoneType"} THEN PyTypeError ELSE PyVal(x.ty, 0 - x.v)

\* x < y: comparisons are defined between all numeric types.
PyLt(x, y) == x.v < y.v

-----------------------------------------------------------------------------
\* SQL

\* A value stored in a DECIMAL(10, 2) column: rounded to hundredths, half away
\* from zero (inputs are >= 0).
ToNumeric(a) == ((a + 5) \div 10) * 10

RECURSIVE SumPairs(_)
\* Sum of the values of a set of <<key, value>> pairs.
SumPairs(S) ==
    IF S = {} THEN 0
    ELSE LET x == CHOOSE y \in S : TRUE IN x[2] + SumPairs(S \ {x})

\* The amounts of expense or income rows, and the monthly budgets of budget rows.
Amounts(S) == {<<r.id, r.amount>> : r \in S}
MonthlyBudgets(S) == {<<r.category, r.monthly_budget>> : r \in S}

\* SUM(col): NULL over no rows, fetched as None; a NUMERIC as Decimal.
SqlSum(P) == IF P = {} THEN PyNone ELSE PyVal("Decimal", SumPairs(P))
\* AVG(amount), cut to thousandths.
SqlAvg(S) == IF S = {} THEN PyNone ELSE PyVal("Decimal", SumPairs(Amounts(S)) \div Cardinality(S))
SqlMax(S) == IF S = {} THEN PyNone
             ELSE PyVal("Decimal", CHOOSE m \in {r.amount : r \in S} : \A r \in S : r.amount <= m)
SqlMin(S) == IF S = {} THEN PyNone
             ELSE PyVal("Decimal", CHOOSE m \in {r.amount : r \in S} : \A r \in S : r.amount >= m)
\* COUNT(*)
SqlCount(S) == PyVal("int", Cardinality(S))

DateLeq(a, b) ==
    \/ a[1] < b[1]
    \/ a[1] = b[1] /\ a[2] < b[2]
    \/ a[1] = b[1] /\ a[2] = b[2] /\ a[3] <= b[3]

\* The orders in which a SELECT without ORDER BY can return the rows of S.
Perms(S) ==
    {s \in [1..Cardinality(S) -> S] : \A i, j \in 1..Cardinality(S) : i # j => s[i] # s[j]}

-----------------------------------------------------------------------------
\* The connection

\* cursor.execute under fault f on a connection in state <<c, t>>.
Execute(c, t, f) ==
    IF c = "none" THEN "AttributeError"
    ELSE IF c = "closed" THEN "InterfaceError"
    ELSE IF f = "execute_lost" THEN "OperationalError"
    ELSE IF t = "aborted" THEN "InFailedSqlTransaction"
    ELSE IF f = "execute_error" THEN "DatabaseError"
    ELSE "ok"

\* The try/except of a method that writes: execute, commit, and on a
\* psycopg2.Error rollback and return False.  rollback raises on a closed
\* connection, and an AttributeError is not caught at all.
Write(c, t, f) ==
    LET e == Execute(c, t, f)
    IN  IF e = "AttributeError"
        THEN [ret |-> "raise AttributeError", conn |-> c, tx |-> t, executed |-> FALSE, committed |-> FALSE]
        ELSE IF e = "ok" /\ f # "commit_lost"
        THEN [ret |-> "True", conn |-> c, tx |-> "idle", executed |-> TRUE, committed |-> TRUE]
        ELSE IF e = "ok"
        THEN [ret |-> "raise InterfaceError", conn |-> "closed", tx |-> "idle", executed |-> TRUE, committed |-> FALSE]
        ELSE IF e \in {"DatabaseError", "InFailedSqlTransaction"}
        THEN [ret |-> "False", conn |-> c, tx |-> "idle", executed |-> FALSE, committed |-> FALSE]
        ELSE [ret |-> "raise InterfaceError", conn |-> "closed", tx |-> "idle", executed |-> FALSE, committed |-> FALSE]

\* The try/except of a method that reads: execute and fetch, and on a
\* psycopg2.Error return the empty value.  Nothing commits or rolls back.
Read(c, t, f) ==
    LET e == Execute(c, t, f)
    IN  IF e = "AttributeError" THEN [ret |-> "raise AttributeError", conn |-> c, tx |-> t]
        ELSE IF e = "ok" THEN [ret |-> "ok", conn |-> c, tx |-> "active"]
        ELSE IF e = "InterfaceError" THEN [ret |-> "empty", conn |-> c, tx |-> t]
        ELSE IF e = "OperationalError" THEN [ret |-> "empty", conn |-> "closed", tx |-> "idle"]
        ELSE [ret |-> "empty", conn |-> c, tx |-> "aborted"]

\* What lastOp keeps of a call: its name, the id it was given (0 if none),
\* the fault injected, how it ended, cursor.rowcount and the value returned.
Call(name, id, f, r, rc, o) ==
    [op |-> name, id |-> id, fault |-> f, ret |-> r, rowcount |-> rc, out |-> o]

-----------------------------------------------------------------------------
\* Expenses

Ids(tbl) == {r.id : r \in tbl}

\* The INSERT with category and payment_method bound in the wrong order.
InsertExpenseArgsSwapped(tbl, seq, d, a, c, p) ==
    tbl \cup {[id |-> seq, date |-> d, amount |-> ToNumeric(a),
               category |-> p, payment_method |-> c]}
\* INSERT INTO expenses (date, amount, category, payment_method) VALUES (...)
InsertExpense(tbl, seq, d, a, c, p) ==
    tbl \cup {[id |-> seq, date |-> d, amount |-> ToNumeric(a),
               category |-> c, payment_method |-> p]}

\* The UPDATE without its WHERE clause.
UpdateExpenseRowsNoWhere(tbl, id, d, a, c, p) ==
    {[r EXCEPT !.date = d, !.amount = ToNumeric(a), !.category = c, !.payment_method = p] : r \in tbl}
\* UPDATE expenses SET ... WHERE id = %s
UpdateExpenseRows(tbl, id, d, a, c, p) ==
    {IF r.id = id
     THEN [r EXCEPT !.date = d, !.amount = ToNumeric(a), !.category = c, !.payment_method = p]
     ELSE r : r \in tbl}

\* DELETE FROM expenses WHERE id = %s
DeleteExpenseRows(tbl, id) == {r \in tbl : r.id # id}

\* SELECT ... FROM expenses ORDER BY date DESC: rows of equal date in any order.
FetchExpenses(tbl) ==
    {s \in Perms(tbl) : \A i \in 1..(Cardinality(tbl) - 1) : DateLeq(s[i + 1].date, s[i].date)}

add_expense(d, a, c, p, f) ==
    LET w == Write(conn, tx, f)
    IN  /\ expenses_id_seq <= MaxSerial
        /\ expenses' = IF w.committed THEN InsertExpense(expenses, expenses_id_seq, d, a, c, p)
                       ELSE expenses
        /\ expenses_id_seq' = IF w.executed THEN expenses_id_seq + 1 ELSE expenses_id_seq
        /\ conn' = w.conn
        /\ tx' = w.tx
        /\ lastOp' = Call("add_expense", 0, f, w.ret, IF w.executed THEN 1 ELSE -1, <<>>)
        /\ UNCHANGED <<budgets, income>>

get_expenses(f) ==
    LET q == Read(conn, tx, f)
    IN  /\ conn' = q.conn
        /\ tx' = q.tx
        /\ \E rows \in (IF q.ret = "ok" THEN FetchExpenses(expenses) ELSE {<<>>}) :
              lastOp' = Call("get_expenses", 0, f, q.ret,
                             IF q.ret = "ok" THEN Cardinality(expenses) ELSE -1, rows)
        /\ UNCHANGED <<expenses, expenses_id_seq, budgets, income>>

update_expense(id, d, a, c, p, f) ==
    LET w == Write(conn, tx, f)
    IN  /\ expenses' = IF w.committed THEN UpdateExpenseRows(expenses, id, d, a, c, p)
                       ELSE expenses
        /\ conn' = w.conn
        /\ tx' = w.tx
        /\ lastOp' = Call("update_expense", id, f, w.ret,
                          IF w.executed THEN Cardinality({r \in expenses : r.id = id}) ELSE -1, <<>>)
        /\ UNCHANGED <<expenses_id_seq, budgets, income>>

delete_expense(id, f) ==
    LET w == Write(conn, tx, f)
    IN  /\ expenses' = IF w.committed THEN DeleteExpenseRows(expenses, id) ELSE expenses
        /\ conn' = w.conn
        /\ tx' = w.tx
        /\ lastOp' = Call("delete_expense", id, f, w.ret,
                          IF w.executed THEN Cardinality({r \in expenses : r.id = id}) ELSE -1, <<>>)
        /\ UNCHANGED <<expenses_id_seq, budgets, income>>

-----------------------------------------------------------------------------
\* Budgets

\* The INSERT with ON CONFLICT (category) DO NOTHING.
UpsertBudgetDoNothing(tbl, c, m, a) ==
    IF \E b \in tbl : b.category = c THEN tbl
    ELSE tbl \cup {[category |-> c, monthly_budget |-> ToNumeric(m), annual_budget |-> ToNumeric(a)]}
\* INSERT INTO budgets ... ON CONFLICT (category) DO UPDATE SET both budgets
UpsertBudget(tbl, c, m, a) ==
    {b \in tbl : b.category # c}
        \cup {[category |-> c, monthly_budget |-> ToNumeric(m), annual_budget |-> ToNumeric(a)]}

add_budget(c, m, a, f) ==
    LET w == Write(conn, tx, f)
    IN  /\ budgets' = IF w.committed THEN UpsertBudget(budgets, c, m, a) ELSE budgets
        /\ conn' = w.conn
        /\ tx' = w.tx
        /\ lastOp' = Call("add_budget", 0, f, w.ret, IF w.executed THEN 1 ELSE -1, <<>>)
        /\ UNCHANGED <<expenses, expenses_id_seq, income>>

get_budgets(f) ==
    LET q == Read(conn, tx, f)
    IN  /\ conn' = q.conn
        /\ tx' = q.tx
        /\ \E rows \in (IF q.ret = "ok" THEN Perms(budgets) ELSE {<<>>}) :
              lastOp' = Call("get_budgets", 0, f, q.ret,
                             IF q.ret = "ok" THEN Cardinality(budgets) ELSE -1, rows)
        /\ UNCHANGED <<expenses, expenses_id_seq, budgets, income>>

-----------------------------------------------------------------------------
\* Aggregates

InMonth(r, month, year) == r.date[2] = month /\ r.date[1] = year

\* SELECT category, SUM(amount) FROM expenses WHERE month and year match
\* GROUP BY category: one <<category, sum>> per category that has a row.
MonthlySpending(tbl, month, year) ==
    LET rows == {r \in tbl : InMonth(r, month, year)}
    IN  {<<c, SumPairs(Amounts({r \in rows : r.category = c}))>> : c \in {r.category : r \in rows}}

get_monthly_spending_by_category(month, year, f) ==
    LET q == Read(conn, tx, f)
        rows == IF q.ret = "ok" THEN MonthlySpending(expenses, month, year) ELSE {}
    IN  /\ conn' = q.conn
        /\ tx' = q.tx
        /\ lastOp' = Call("get_monthly_spending_by_category", 0, f, q.ret,
                          IF q.ret = "ok" THEN Cardinality(rows) ELSE -1,
                          [month |-> month, year |-> year, rows |-> rows])
        /\ UNCHANGED <<expenses, expenses_id_seq, budgets, income>>

get_total_income(f) ==
    LET q == Read(conn, tx, f)
    IN  /\ conn' = q.conn
        /\ tx' = q.tx
        /\ lastOp' = Call("get_total_income", 0, f, q.ret, IF q.ret = "ok" THEN 1 ELSE -1,
                          IF q.ret = "ok" THEN PyOr(SqlSum(Amounts(income)), PyVal("float", 0))
                          ELSE PyVal("float", 0))
        /\ UNCHANGED <<expenses, expenses_id_seq, budgets, income>>

CategoryTotal(tbl, c) == SumPairs(Amounts({r \in tbl : r.category = c}))

\* SELECT category FROM expenses GROUP BY category ORDER BY SUM(amount) DESC
\* LIMIT 1: any category of maximal sum, no row over no expenses.
TopCategories(tbl) ==
    {c \in {r.category : r \in tbl} :
        \A d \in {r.category : r \in tbl} : CategoryTotal(tbl, d) <= CategoryTotal(tbl, c)}

\* The dict get_business_insights builds, with `top` the row of its last query.
Insights(top) ==
    [total_expenses       |-> PyOr(SqlSum(Amounts(expenses)), PyVal("float", 0)),
     avg_daily_expense    |-> PyOr(SqlAvg(expenses), PyVal("float", 0)),
     max_expense          |-> PyOr(SqlMax(expenses), PyVal("float", 0)),
     min_expense          |-> PyOr(SqlMin(expenses), PyVal("float", 0)),
     total_transactions   |-> PyOr(SqlCount(expenses), PyVal("int", 0)),
     total_monthly_budget |-> PyOr(SqlSum(MonthlyBudgets(budgets)), PyVal("float", 0)),
     total_income         |-> PyOr(SqlSum(Amounts(income)), PyVal("float", 0)),
     most_spent_category  |-> top]

\* The eight queries run on one cursor; a psycopg2.Error in any of them gives {}.
get_business_insights(f) ==
    LET q == Read(conn, tx, f)
    IN  /\ conn' = q.conn
        /\ tx' = q.tx
        /\ \E top \in (IF expenses = {} THEN {"N/A"} ELSE TopCategories(expenses)) :
              lastOp' = Call("get_business_insights", 0, f, q.ret, IF q.ret = "ok" THEN 1 ELSE -1,
                             IF q.ret = "ok" THEN Insights(top) ELSE <<>>)
        /\ UNCHANGED <<expenses, expenses_id_seq, budgets, income>>

-----------------------------------------------------------------------------
\* Budget tracking of the Manage Budgets page

\* One pass of the loop body: the alert shown for a budget row, given the
\* rows of get_monthly_spending_by_category.
BudgetAlert(b, spending) ==
    LET monthly_budget == PyVal("Decimal", b.monthly_budget)
        current_spending ==
            IF \E s \in spending : s[1] = b.category
            THEN PyVal("Decimal", (CHOOSE s \in spending : s[1] = b.category)[2])
            ELSE PyVal("int", 0)
        remaining_budget == PySub(monthly_budget, current_spending)
        threshold == PyMul(monthly_budget, PyVal("float", 200))
        shown == [category |-> b.category, monthly_budget |-> b.monthly_budget,
                  current_spending |-> current_spending.v, remaining |-> remaining_budget.v]
    IN  IF PyLt(remaining_budget, PyVal("int", 0))
        THEN [shown EXCEPT !.remaining = PyNeg(remaining_budget).v] @@ [alert |-> "exceeded"]
        ELSE IF threshold.ty = "TypeError" THEN shown @@ [alert |-> "TypeError"]
        ELSE IF PyLt(remaining_budget, threshold) THEN shown @@ [alert |-> "nearing"]
        ELSE shown @@ [alert |-> "within"]

RECURSIVE TrackBudgets(_, _, _, _, _, _)
\* The loop over the budget rows from row i on, on a connection in state
\* <<c, t>>; f is the fault of the first spending query still to run.
TrackBudgets(rows, i, c, t, today, f) ==
    IF i > Len(rows) THEN [alerts |-> <<>>, ret |-> "None", conn |-> c, tx |-> t]
    ELSE LET q == Read(c, t, f)
             spending == IF q.ret = "ok" THEN MonthlySpending(expenses, today[2], today[1]) ELSE {}
             a == BudgetAlert(rows[i], spending)
             rest == TrackBudgets(rows, i + 1, q.conn, q.tx, today, "none")
         IN  IF a.alert = "TypeError"
             THEN [alerts |-> <<>>, ret |-> "raise TypeError", conn |-> q.conn, tx |-> q.tx]
             ELSE [alerts |-> <<a>> \o rest.alerts, ret |-> rest.ret, conn |-> rest.conn, tx |-> rest.tx]

\* display_manage_budgets from get_budgets on, on the day `today`; f0 is the
\* fault of get_budgets and f1 that of the first spending query.
display_manage_budgets(today, f0, f1) ==
    LET q == Read(conn, tx, f0)
    IN  \E rows \in (IF q.ret = "ok" THEN Perms(budgets) ELSE {<<>>}) :
          LET r == IF q.ret = "raise AttributeError"
                   THEN [alerts |-> <<>>, ret |-> q.ret, conn |-> q.conn, tx |-> q.tx]
                   ELSE TrackBudgets(rows, 1, q.conn, q.tx, today, f1)
          IN  /\ conn' = r.conn
              /\ tx' = r.tx
              /\ lastOp' = Call("display_manage_budgets", 0,
                                IF f0 = "none" /\ f1 = "none" THEN "none" ELSE "some",
                                r.ret, -1,
                                [today |-> today, budgets |-> rows, alerts |-> r.alerts])
              /\ UNCHANGED <<expenses, expenses_id_seq, budgets, income>>

-----------------------------------------------------------------------------
\* The program

\* DatabaseManager(): connect() keeps conn and cursor None when the store is
\* unreachable, and returns normally.  The tables are created if absent.
InitOver(sc) ==
    /\ conn \in {"open", "none"}
    /\ tx = "idle"
    /\ expenses = {}
    /\ expenses_id_seq = 1
    /\ budgets = {}
    /\ income \in sc.incomes
    /\ lastOp = Call("connect", 0, "none", "None", -1, <<>>)

\* frontend.py builds a new DatabaseManager each time the script runs.
connect ==
    /\ conn' \in {"open", "none"}
    /\ tx' = "idle"
    /\ lastOp' = Call("connect", 0, "none", "None", -1, <<>>)
    /\ UNCHANGED <<expenses, expenses_id_seq, budgets, income>>

\* The arguments of a write reach the tables only when it commits: for a
\* write that fails, one value of S stands for all of them.
Args(S, f) == IF Write(conn, tx, f).committed THEN S ELSE {CHOOSE x \in S : TRUE}

\* The calls of the program with their inputs drawn from the sets of sc.
NextOver(sc) ==
    \/ connect
    \/ \E f \in sc.wfaults :
          \E d \in Args(sc.dates, f), a \in Args(sc.amounts, f), c \in Args(sc.categories, f),
             p \in Args(PaymentMethods, f) :
             add_expense(d, a, c, p, f)
    \/ \E f \in sc.rfaults : get_expenses(f)
    \/ \E f \in sc.wfaults, id \in 1..MaxSerial :
          \E d \in Args(sc.dates, f), a \in Args(sc.amounts, f), c \in Args(sc.categories, f),
             p \in Args(PaymentMethods, f) :
             update_expense(id, d, a, c, p, f)
    \/ \E f \in sc.wfaults, id \in 1..MaxSerial : delete_expense(id, f)
    \/ \E f \in sc.wfaults :
          \E c \in Args(sc.bcategories, f), b \in Args(sc.binputs, f) :
             add_budget(c, b[1], b[2], f)
    \/ \E f \in sc.rfaults : get_budgets(f)
    \/ \E f \in sc.rfaults, d \in sc.dates : get_monthly_spending_by_category(d[2], d[1], f)
    \/ \E f \in sc.rfaults : get_total_income(f)
    \/ \E f \in sc.rfaults : get_business_insights(f)
    \/ \E f0 \in sc.rfaults, f1 \in sc.rfaults, d \in sc.dates : display_manage_budgets(d, f0, f1)

\* The expense form with both dates and a valid and an invalid amount, the
\* budget form with one choice; every fault.
ExpenseScope ==
    [dates |-> Dates, amounts |-> {10, 15}, categories |-> {"Food"},
     bcategories |-> {"Food"}, binputs |-> {<<20, 240>>}, incomes |-> {{}},
     rfaults |-> ReadFaults, wfaults |-> MutFaults]

\* The budget form in full, the expense forms with one choice.
BudgetScope ==
    [dates |-> {<<2025, 1, 15>>}, amounts |-> {10}, categories |-> {"Food"},
     bcategories |-> Categories, binputs |-> BudgetInputs, incomes |-> {{}},
     rfaults |-> {"none", "execute_error"}, wfaults |-> {"none", "execute_error"}]

\* What the aggregates read: amounts and categories of expenses, budgets, income.
InsightScope ==
    [dates |-> {<<2025, 1, 15>>}, amounts |-> {0, 15}, categories |-> Categories,
     bcategories |-> {"Food"}, binputs |-> {<<0, 0>>, <<20, 240>>}, incomes |-> IncomeTables,
     rfaults |-> {"none", "execute_error"}, wfaults |-> {"none", "execute_error"}]

Init == InitOver(ExpenseScope)
Next == NextOver(ExpenseScope)
Spec == Init /\ [][Next]_vars

SpecBudgets == InitOver(BudgetScope) /\ [][NextOver(BudgetScope)]_vars
SpecInsights == InitOver(InsightScope) /\ [][NextOver(InsightScope)]_vars

-----------------------------------------------------------------------------
\* Properties

\* An amount of the data model: two fractional digits.
ValidAmount(a) == a % 10 = 0

WriteOps == {"add_expense", "update_expense", "delete_expense", "add_budget"}
StoreOps == WriteOps \cup {"get_expenses", "get_budgets", "get_monthly_spending_by_category",
                           "get_total_income", "get_business_insights"}

\* C1: a successful add_expense of a valid input leaves a table whose every
\* get_expenses result holds a row with the four input fields under an id no
\* row had before and no other row has, and holds every earlier row unchanged.
C1_AddThenGet ==
    [][(lastOp'.op = "add_expense" /\ lastOp'.ret = "True") =>
          \A d \in Dates, a \in AmountInputs, c \in Categories, p \in PaymentMethods :
              (add_expense(d, a, c, p, lastOp'.fault) /\ ValidAmount(a)) =>
                  \A rows \in FetchExpenses(expenses') :
                      /\ \E i \in 1..Len(rows) :
                            /\ rows[i].date = d /\ rows[i].amount = a
                            /\ rows[i].category = c /\ rows[i].payment_method = p
                            /\ rows[i].id \notin Ids(expenses)
                            /\ \A j \in 1..Len(rows) : j # i => rows[j].id # rows[i].id
                      /\ \A r \in expenses : \E j \in 1..Len(rows) : rows[j] = r
      ]_vars

\* C1 witness: a valid input (0.01) was added to a table that held a row.
C1_Witness ==
    /\ lastOp.op = "add_expense" /\ lastOp.ret = "True"
    /\ Cardinality(expenses) = 2
    /\ \E r \in expenses : r.id = expenses_id_seq - 1 /\ r.amount = 10

\* C2: a successful update_expense of an existing id with a valid amount keeps
\* the set of ids, gives that id the new fields, keeps every other row, and
\* leaves budgets and income alone.
C2_UpdateOnlyThatRecord ==
    [][(lastOp'.op = "update_expense" /\ lastOp'.ret = "True" /\ lastOp'.id \in Ids(expenses)) =>
          \A d \in Dates, a \in AmountInputs, c \in Categories, p \in PaymentMethods :
              (update_expense(lastOp'.id, d, a, c, p, lastOp'.fault) /\ ValidAmount(a)) =>
                  /\ Ids(expenses') = Ids(expenses)
                  /\ Cardinality(expenses') = Cardinality(expenses)
                  /\ [id |-> lastOp'.id, date |-> d, amount |-> a, category |-> c,
                      payment_method |-> p] \in expenses'
                  /\ \A r \in expenses : r.id # lastOp'.id => r \in expenses'
                  /\ budgets' = budgets
                  /\ income' = income
      ]_vars

\* C2 witness: an update matched one row of a table of two rows that differ.
C2_Witness ==
    /\ lastOp.op = "update_expense" /\ lastOp.ret = "True" /\ lastOp.rowcount = 1
    /\ Cardinality(expenses) = 2
    /\ \E r, q \in expenses : r.id # q.id /\ r.date # q.date /\ r.amount = 10 /\ q.amount # 10

\* C3: delete_expense of an existing id reports success and removes that row
\* only; the same delete repeated right after reports failure and changes
\* nothing.
C3_DeleteTwice ==
    [][\A id \in 1..MaxSerial :
          /\ (delete_expense(id, "none") /\ conn = "open" /\ tx # "aborted" /\ id \in Ids(expenses)) =>
                /\ lastOp'.ret = "True"
                /\ expenses' = {r \in expenses : r.id # id}
          /\ (delete_expense(id, "none") /\ lastOp.op = "delete_expense" /\ lastOp.id = id
                /\ lastOp.ret = "True" /\ lastOp.rowcount = 1) =>
                /\ lastOp'.ret = "False"
                /\ expenses' = expenses /\ budgets' = budgets /\ income' = income
      ]_vars

\* C4: budgets holds at most one row per category; a successful add_budget of
\* valid values leaves exactly one row for its category, with those values,
\* and the rows of other categories as they were; nothing else changes budgets.
C4_UpsertBudget ==
    /\ [](\A x, y \in budgets : x.category = y.category => x = y)
    /\ [][IF lastOp'.op = "add_budget" /\ lastOp'.ret = "True"
          THEN \A c \in Categories, b \in BudgetInputs :
                  (add_budget(c, b[1], b[2], lastOp'.fault)
                     /\ ValidAmount(b[1]) /\ ValidAmount(b[2])) =>
                      /\ {x \in budgets' : x.category = c}
                            = {[category |-> c, monthly_budget |-> b[1], annual_budget |-> b[2]]}
                      /\ {x \in budgets' : x.category # c} = {x \in budgets : x.category # c}
          ELSE budgets' = budgets
        ]_vars

\* C4 witness: a budget was set while both categories have a row.
C4_Witness ==
    /\ lastOp.op = "add_budget" /\ lastOp.ret = "True"
    /\ {b.category : b \in budgets} = Categories
    /\ \E b \in budgets : b.monthly_budget = 20

\* C5: a write during which the persistence layer fails returns False, raises
\* nothing, and leaves the three tables as they were.
C5_AllOrNothing ==
    [][(lastOp'.op \in WriteOps /\ lastOp'.fault # "none" /\ conn = "open") =>
          /\ lastOp'.ret = "False"
          /\ expenses' = expenses /\ budgets' = budgets /\ income' = income
      ]_vars

\* The tier the budget status is specified to show for a monthly budget and
\* the spending of the current month.
SpecTier(monthly, spent) ==
    IF monthly - spent < 0 THEN "exceeded"
    ELSE IF 5 * (monthly - spent) < monthly THEN "nearing"
    ELSE "within"

CurrentSpending(c, today) ==
    SumPairs(Amounts({r \in expenses : r.category = c /\ InMonth(r, today[2], today[1])}))

\* C6: the budget tracking shows, for every budget row, exactly the tier of
\* SpecTier for the spending of the current month and year.
C6_BudgetStatus ==
    (lastOp.op = "display_manage_budgets" /\ lastOp.fault = "none") =>
        /\ lastOp.ret \in {"None", "raise AttributeError"}
        /\ lastOp.ret = "None" =>
              /\ Len(lastOp.out.alerts) = Len(lastOp.out.budgets)
              /\ \A i \in 1..Len(lastOp.out.budgets) :
                    LET b == lastOp.out.budgets[i]
                        spent == CurrentSpending(b.category, lastOp.out.today)
                    IN  /\ lastOp.out.alerts[i].alert = SpecTier(b.monthly_budget, spent)
                        /\ lastOp.out.alerts[i].current_spending = spent

NumericFields ==
    {"total_expenses", "avg_daily_expense", "max_expense", "min_expense",
     "total_transactions", "total_monthly_budget", "total_income"}
ExpenseFields == NumericFields \ {"total_monthly_budget", "total_income"}

\* The aggregates of the committed tables that C7 names.
AggregatesRight(o) ==
    /\ \A k \in NumericFields : o[k].ty \in {"Decimal", "float", "int"}
    /\ o.total_expenses.v = SumPairs(Amounts(expenses))
    /\ o.total_transactions.v = Cardinality(expenses)
    /\ o.total_monthly_budget.v = SumPairs(MonthlyBudgets(budgets))
    /\ o.total_income.v = SumPairs(Amounts(income))
    /\ expenses # {} =>
          /\ \E r \in expenses : r.amount = o.max_expense.v
          /\ \E r \in expenses : r.amount = o.min_expense.v
          /\ \A r \in expenses : o.min_expense.v <= r.amount /\ r.amount <= o.max_expense.v
          /\ \E r \in expenses : r.category = o.most_spent_category
          /\ \A c \in Categories : CategoryTotal(expenses, c) <= CategoryTotal(expenses, o.most_spent_category)

\* C7 as stated: the aggregates are those of the committed tables, and over
\* no expenses every numeric field is 0 and the category is "N/A".
C7_InsightsAllZeroWhenNoExpenses ==
    (lastOp.op = "get_business_insights" /\ lastOp.ret = "ok") =>
        /\ AggregatesRight(lastOp.out)
        /\ expenses = {} =>
              /\ \A k \in NumericFields : lastOp.out[k].v = 0
              /\ lastOp.out.most_spent_category = "N/A"

\* C7 amended: the aggregates are those of the committed tables and never
\* None; over no expenses the fields computed from expenses are 0 and the
\* category is "N/A"; the budget and income totals are 0 over no budgets and
\* no income.
C7_Insights ==
    (lastOp.op = "get_business_insights" /\ lastOp.ret = "ok") =>
        /\ AggregatesRight(lastOp.out)
        /\ expenses = {} =>
              /\ \A k \in ExpenseFields : lastOp.out[k].v = 0
              /\ lastOp.out.most_spent_category = "N/A"
        /\ budgets = {} => lastOp.out.total_monthly_budget.v = 0
        /\ income = {} => lastOp.out.total_income.v = 0

\* C7 witness: insights over two expenses of different categories and
\* amounts, a budget and an income row.
C7_Witness ==
    /\ lastOp.op = "get_business_insights" /\ lastOp.ret = "ok"
    /\ \E r, q \in expenses : r.category # q.category /\ r.amount < q.amount
    /\ budgets # {} /\ income # {}
    /\ lastOp.out.total_expenses.v = 20

\* C8: update_expense of an id that no row has reports failure and leaves
\* expenses as it was.
C8_UpdateAbsentFails ==
    [][(lastOp'.op = "update_expense" /\ lastOp'.fault = "none" /\ conn = "open"
          /\ lastOp'.id \notin Ids(expenses)) =>
          /\ lastOp'.ret = "False"
          /\ expenses' = expenses
      ]_vars

\* C9: no call is made on a DatabaseManager whose connection was not
\* established.
C9_NoCallWithoutConnection == conn = "none" => lastOp.op = "connect"

\* C10: after a call that returned its failure value on a connection still
\* open, the next Store call, with no fault injected, succeeds.
C10_FailureDoesNotSpread ==
    [][(/\ lastOp.op \in StoreOps /\ lastOp.ret \in {"False", "empty"} /\ conn = "open"
        /\ lastOp'.op \in StoreOps /\ lastOp'.fault = "none") =>
          lastOp'.ret \in {"True", "ok"}
      ]_vars

====
